---- MODULE Spec2Model ----
(***************************************************************************)
(* A model of the mealy package: the builder FromChannel, the membership   *)
(* test Recognizes, the constrained enumeration ConstrainedSequences and   *)
(* the codec WriteTo / ReadFrom.                                           *)
(*                                                                         *)
(* A Go uint32 is held as a pair <<hi, lo>> of its two 16-bit halves: TLC  *)
(* integers are 32-bit signed and cannot hold a packed transition whose    *)
(* trigger is 128 or more.  Go slices are 0-based; the sequences here are  *)
(* 1-based, so Go's s[i] is s[i+1].                                        *)
(***************************************************************************)
EXTENDS Integers, Sequences, FiniteSets, TLC

\* Longest byte sequence fed to the builder.
MaxLen == 2

\* Most items fed to the builder.
MaxItems == 3

\* The byte values the inputs are drawn from ('A', 'B').
Bytes == {65, 66}

\* All byte sequences of length lo..hi over Bytes.
SeqsOfLen(lo, hi) == UNION {[1..k -> Bytes] : k \in lo..hi}

\* All lists of at most n items taken from set S.
ListsUpTo(S, n) == UNION {[1..k -> S] : k \in 0..n}

(***************************************************************************)
(* transition: a packed uint32                                             *)
(***************************************************************************)

\* Mutant: the terminal flag takes the top bit, the trigger the eight below.
NewTransition_FlagFirst(trigger, toStateId, isTerminal) ==
    LET d == toStateId % 8388608
    IN  << (IF isTerminal THEN 32768 ELSE 0) + trigger * 128 + (d \div 65536),
           d % 65536 >>

NewTransition(trigger, toStateId, isTerminal) ==
    LET d == toStateId % 8388608    \* uint32(toStateId) & 0x7fffff
    IN  << trigger * 256 + (IF isTerminal THEN 128 ELSE 0) + (d \div 65536),
           d % 65536 >>

Trigger(t) == t[1] \div 256

ToState(t) == (t[1] % 128) * 65536 + t[2]

IsTerminal(t) == (t[1] \div 128) % 2 = 1

\* The zero value of a transition variable (var tran transition).
ZeroTransition == <<0, 0>>

\* s[i] < s[j] on uint32 values.
Less(a, b) == a[1] < b[1] \/ (a[1] = b[1] /\ a[2] < b[2])

\* binary.Write(w, binary.BigEndian, t): the four bytes of a uint32.
PutUint32(t) == << t[1] \div 256, t[1] % 256, t[2] \div 256, t[2] % 256 >>

\* binary.Read(r, binary.BigEndian, &tr): a uint32 from four bytes.
Uint32(b) == << b[1] * 256 + b[2], b[3] * 256 + b[4] >>

(***************************************************************************)
(* sort.Search and sort.Sort as the state methods use them                 *)
(***************************************************************************)

RECURSIVE searchLoop(_, _, _)
searchLoop(i, j, f) ==
    IF i < j
    THEN LET h == (i + j) \div 2
         IN  IF ~f[h] THEN searchLoop(h + 1, j, f) ELSE searchLoop(i, h, f)
    ELSE i

\* sort.Search(n, f), f given as a function on 0..n-1.
Search(n, f) == searchLoop(0, n, f)

RECURSIVE insertSorted(_, _)
insertSorted(s, t) ==
    IF s = <<>> THEN <<t>>
    ELSE IF Less(t, s[1]) THEN <<t>> \o s
    ELSE <<s[1]>> \o insertSorted(Tail(s), t)

RECURSIVE Sort(_)
Sort(s) == IF s = <<>> THEN <<>> ELSE insertSorted(Sort(Tail(s)), s[1])

(***************************************************************************)
(* state: a list of transitions                                            *)
(***************************************************************************)

IsEmpty(s) == Len(s) = 0

\* Mutant: only the trigger bytes are hashed.
Fingerprint_TriggersOnly(s) == [k \in 1..Len(s) |-> Trigger(s[k])]

\* The SHA-1 digest is taken as collision-free: the digest of a state is
\* identified with the bytes that were hashed, four per transition.
Fingerprint(s) ==
    [k \in 1..(4 * Len(s)) |-> PutUint32(s[((k - 1) \div 4) + 1])[((k - 1) % 4) + 1]]

IndexForTrigger(s, value) ==
    LET i == Search(Len(s), [x \in 0..(Len(s) - 1) |-> Trigger(s[x + 1]) >= value])
    IN  IF i < Len(s) /\ Trigger(s[i + 1]) = value THEN i ELSE Len(s)

\* Mutant: the new transition goes first, whatever its value.
AddTransition_Unsorted(s, t) ==
    IF \E x \in 1..Len(s) : s[x] = t THEN s ELSE <<t>> \o s

AddTransition(s, t) ==
    LET i == Search(Len(s), [x \in 0..(Len(s) - 1) |-> ~Less(s[x + 1], t)])
    IN  IF i < Len(s) /\ s[i + 1] = t
        THEN s
        ELSE SubSeq(s, 1, i) \o Sort(SubSeq(s, i + 1, Len(s)) \o <<t>>)

(***************************************************************************)
(* FromChannel                                                             *)
(***************************************************************************)

RECURSIVE prefixFrom(_, _, _)
prefixFrom(a, b, l) ==
    IF l < Len(a) /\ l < Len(b) /\ a[l + 1] = b[l + 1]
    THEN prefixFrom(a, b, l + 1)
    ELSE l

commonPrefixLen(a, b) == prefixFrom(a, b, 0)

\* Mutant: equal sequences compare as ascending.
Compare_EqualIsLess(a, b) ==
    LET l == commonPrefixLen(a, b)
    IN  IF l = Len(a) THEN -1
        ELSE IF l = Len(b) THEN 1
        ELSE IF a[l + 1] < b[l + 1] THEN -1 ELSE 1

\* bytes.Compare(a, b): -1, 0 or 1 by lexicographic byte order.
Compare(a, b) ==
    LET l == commonPrefixLen(a, b)
    IN  IF l = Len(a) /\ l = Len(b) THEN 0
        ELSE IF l = Len(a) THEN -1
        ELSE IF l = Len(b) THEN 1
        ELSE IF a[l + 1] < b[l + 1] THEN -1 ELSE 1

\* Mutant: a new state takes the length after the append as its id.
makeState_IdAfterAppend(b, s) ==
    LET fprint == Fingerprint(s)
    IN  IF fprint \in DOMAIN b.states
        THEN [id |-> b.states[fprint], self |-> b.self, states |-> b.states]
        ELSE [id |-> Len(b.self) + 1,
              self |-> Append(b.self, s),
              states |-> (fprint :> (Len(b.self) + 1)) @@ b.states]

\* Mutant: every candidate is appended, none is looked up.
makeState_NoIntern(b, s) ==
    [id |-> Len(b.self), self |-> Append(b.self, s), states |-> b.states]

\* makeState on the pair (self, states): the id, and the pair afterwards.
makeState(b, s) ==
    LET fprint == Fingerprint(s)
    IN  IF fprint \in DOMAIN b.states
        THEN [id |-> b.states[fprint], self |-> b.self, states |-> b.states]
        ELSE [id |-> Len(b.self),
              self |-> Append(b.self, s),
              states |-> (fprint :> Len(b.self)) @@ b.states]

RECURSIVE suffixLoop(_, _, _, _, _)
\* The loop of makeSuffixStates from i down to p + 1; b holds self, states
\* and larvae.
suffixLoop(b, prev, terms, i, p) ==
    IF i > p
    THEN LET made == makeState(b, b.larvae[i + 1])
             tr   == NewTransition(prev[i], made.id, terms[i + 1])
         IN  suffixLoop([self   |-> made.self,
                         states |-> made.states,
                         larvae |-> [b.larvae EXCEPT ![i] = AddTransition(@, tr)]],
                        prev, terms, i - 1, p)
    ELSE b

makeSuffixStates(b, prev, terms, p) == suffixLoop(b, prev, terms, Len(prev), p)

(***************************************************************************)
(* Recognizer: Start and Recognizes                                        *)
(***************************************************************************)

Start(r) == r[Len(r)]

RECURSIVE recognizeLoop(_, _, _, _, _)
\* "for _, v := range value" from the k-th byte on; the result is tran.
recognizeLoop(r, value, k, state, tran) ==
    IF k > Len(value) THEN tran
    ELSE LET found == IndexForTrigger(state, value[k])
         IN  IF found < Len(state)
             THEN recognizeLoop(r, value, k + 1,
                                r[ToState(state[found + 1]) + 1], state[found + 1])
             ELSE tran

Recognizes(r, value) ==
    IF Len(r) = 0 THEN FALSE
    ELSE IsTerminal(recognizeLoop(r, value, 1, Start(r), ZeroTransition))

(***************************************************************************)
(* Constraints.  A pure predicate is given by the set of arguments it      *)
(* rejects: c.large, c.small (sizes), c.value (<<pos, val>> pairs), c.seq  *)
(* (sequences).                                                            *)
(***************************************************************************)

IsSmallEnough(c, size) == size \notin c.small

IsLargeEnough(c, size) == size \notin c.large

IsValueAllowed(c, pos, val) == <<pos, val>> \notin c.value

IsSequenceAllowed(c, seq) == seq \notin c.seq

BaseConstraints == [small |-> {}, large |-> {}, value |-> {}, seq |-> {}]

(***************************************************************************)
(* pathNode and the closures of ConstrainedSequences                       *)
(***************************************************************************)

CurrentTransition(p) == p.s[p.c + 1]

\* Mutant: the last transition of a state counts as exhausted.
Exhausted_OffByOne(p) == p.c + 1 >= Len(p.s)

Exhausted(p) == p.c >= Len(p.s)

Advance(p) == [p EXCEPT !.c = @ + 1]

RECURSIVE AdvanceUntilAllowed(_, _, _)
\* pathNode.AdvanceUntilAllowed with allowed = con.IsValueAllowed(i, .)
AdvanceUntilAllowed(p, c, i) ==
    IF p.c < Len(p.s) /\ ~IsValueAllowed(c, i, Trigger(CurrentTransition(p)))
    THEN AdvanceUntilAllowed(Advance(p), c, i)
    ELSE p

advanceUntilAllowed(c, i, n) == AdvanceUntilAllowed(n, c, i)

\* Mutant: the byte is tested against the next position.
advanceLastUntilAllowed_Deeper(c, pth) ==
    [pth EXCEPT ![Len(pth)] = advanceUntilAllowed(c, Len(pth), @)]

advanceLastUntilAllowed(c, pth) ==
    [pth EXCEPT ![Len(pth)] = advanceUntilAllowed(c, Len(pth) - 1, @)]

RECURSIVE popLoop_NoRecheck(_, _, _)
\* Mutant: after a pop the node below is advanced by one, its byte untested.
popLoop_NoRecheck(c, pth, size) ==
    IF size > 0 /\ Exhausted(pth[size])
    THEN IF size - 1 > 0
         THEN popLoop_NoRecheck(c, [pth EXCEPT ![size - 1] = Advance(@)], size - 1)
         ELSE popLoop_NoRecheck(c, pth, size - 1)
    ELSE SubSeq(pth, 1, size)

RECURSIVE popLoop(_, _, _)
\* "for size > 0" of popExhausted.
popLoop(c, pth, size) ==
    IF size > 0 /\ Exhausted(pth[size])
    THEN IF size - 1 > 0
         THEN popLoop(c,
                      [pth EXCEPT ![size - 1] =
                           advanceUntilAllowed(c, size - 2, Advance(@))],
                      size - 1)
         ELSE popLoop(c, pth, size - 1)
    ELSE SubSeq(pth, 1, size)

popExhausted(c, pth) == popLoop(c, pth, Len(pth))

getBytes(pth) == [i \in 1..Len(pth) |-> Trigger(CurrentTransition(pth[i]))]

\* The goroutine before the loop body first runs: the initial path, made
\* ready by advanceLastUntilAllowed and the loop's init statement.
initialPath(r, c) ==
    popExhausted(c, advanceLastUntilAllowed(c, <<[s |-> Start(r), c |-> 0]>>))

\* Whether the loop body sends getBytes(pth) on out.
emits(c, pth) ==
    /\ IsTerminal(CurrentTransition(pth[Len(pth)]))
    /\ IsLargeEnough(c, Len(pth))
    /\ IsSequenceAllowed(c, getBytes(pth))

\* The loop body after the send, and the loop's post statement.
descend(r, c, pth) ==
    LET end == pth[Len(pth)]
        nextState == r[ToState(CurrentTransition(end)) + 1]
        moved == IF ~IsEmpty(nextState) /\ IsSmallEnough(c, Len(pth) + 1)
                 THEN Append(pth, [s |-> nextState, c |-> 0])
                 ELSE [pth EXCEPT ![Len(pth)] = Advance(@)]
    IN  popExhausted(c, advanceLastUntilAllowed(c, moved))

(***************************************************************************)
(* WriteTo and ReadFrom                                                    *)
(***************************************************************************)

\* "MMeMv1"
serializationPrefix == <<77, 77, 101, 77, 118, 49>>

\* binary.Write(w, binary.BigEndian, int32(n)) for 0 <= n < 2^31.
PutInt32(n) ==
    << n \div 16777216, (n \div 65536) % 256, (n \div 256) % 256, n % 256 >>

\* binary.Read(r, binary.BigEndian, &numStates): a signed int32.
Int32(b) ==
    (IF b[1] >= 128 THEN b[1] - 256 ELSE b[1]) * 16777216
        + b[2] * 65536 + b[3] * 256 + b[4]

\* binary.Write(w, binary.BigEndian, s) for a state s: four bytes per
\* transition.
putTransitions(s) ==
    [k \in 1..(4 * Len(s)) |-> PutUint32(s[((k - 1) \div 4) + 1])[((k - 1) % 4) + 1]]

RECURSIVE putStates(_)
\* "for _, s := range self" of WriteTo; the writer never fails.
putStates(r) ==
    IF r = <<>> THEN <<>>
    ELSE <<Len(r[1]) % 256>> \o putTransitions(r[1]) \o putStates(Tail(r))

WriteTo(r) == serializationPrefix \o PutInt32(Len(r)) \o putStates(r)

\* binary.Read of n bytes from a reader with pos bytes consumed: io.ReadFull
\* gives io.EOF when nothing is left and io.ErrUnexpectedEOF on a short read.
readErr(r, pos, n) ==
    IF Len(r) - pos >= n THEN "nil"
    ELSE IF Len(r) - pos = 0 THEN "EOF"
    ELSE "unexpected EOF"

\* "for t := 0; t < int(numTransitions); t++": the transitions read before
\* the loop ends or a read fails, the bytes consumed, the error.
readTransitions(r, pos, numTransitions) ==
    LET whole == (Len(r) - pos) \div 4
        n == IF whole < numTransitions THEN whole ELSE numTransitions
    IN  [st  |-> [t \in 1..n |-> Uint32(SubSeq(r, pos + 4 * t - 3, pos + 4 * t))],
         pos |-> pos + 4 * n,
         err |-> IF n < numTransitions THEN readErr(r, pos + 4 * n, 4) ELSE "nil"]

RECURSIVE readStates(_, _, _, _)
\* "for i := 0; i < int(numStates); i++": read holds the states stored in
\* self so far; the rest of self is still nil states.
readStates(r, pos, read, numStates) ==
    IF Len(read) >= numStates
    THEN [self |-> read, len |-> numStates, err |-> "nil", panicked |-> FALSE]
    ELSE IF readErr(r, pos, 1) # "nil"
         THEN [self |-> read, len |-> numStates, err |-> readErr(r, pos, 1),
               panicked |-> FALSE]
         ELSE LET t == readTransitions(r, pos + 1, r[pos + 1])
              IN  IF t.err # "nil"
                  THEN [self |-> read, len |-> numStates, err |-> t.err,
                        panicked |-> FALSE]
                  ELSE readStates(r, t.pos, Append(read, t.st), numStates)

\* The result: the states stored (self), the length of the returned slice
\* (len), the error, and whether the call panicked instead of returning.
ReadFrom(r) ==
    IF readErr(r, 0, Len(serializationPrefix)) # "nil"
    THEN [self |-> <<>>, len |-> 0,
          err |-> readErr(r, 0, Len(serializationPrefix)), panicked |-> FALSE]
    ELSE IF readErr(r, 6, 4) # "nil"
    THEN [self |-> <<>>, len |-> 0, err |-> readErr(r, 6, 4), panicked |-> FALSE]
    ELSE LET numStates == Int32(SubSeq(r, 7, 10))
         IN  IF numStates < 0
             THEN \* make(Recognizer, numStates): makeslice: len out of range
                  [self |-> <<>>, len |-> 0, err |-> "nil", panicked |-> TRUE]
             ELSE readStates(r, 10, <<>>, numStates)

VARIABLES
    values,      \* the items the input channel delivers, in order
    vi,          \* how many of them FromChannel has received
    bpc,         \* FromChannel: "building", "returned", "panic: out-of-order"
                 \* or "panic: start id"
    self,        \* FromChannel's Recognizer under construction
    states,      \* fingerprint -> state id
    terminals,
    larvae,
    prevValue,
    m,           \* the Recognizer FromChannel returned (<<>> before that)
    op,          \* the call the client made on m: "idle" before it; "written"
                 \* and "damaged" tell what became of the bytes written
    recog,       \* the Recognizes calls made: <<[value, result]>>
    con,         \* the Constraints of the running enumeration
    epc,         \* the producer goroutine: "idle", "start", "head", "send",
                 \* "descend" or "closed" (out is closed, the goroutine gone)
    path,        \* the producer's path of pathNodes
    sending,     \* the value the producer is blocked sending on out
    got,         \* the values the consumer has received from out, in order
    stream,      \* the bytes in the buffer WriteTo wrote to
    rd,          \* what ReadFrom did: <<[self, len, err, panicked]>>
    consumer,    \* the reader of out: "receiving", or "stopped" once it has
                 \* given up receiving
    second,      \* a second call of ConstrainedSequences on m: its con, epc,
                 \* path, sending and got
    packed       \* the two latest calls of NewTransition: arguments and result

buildVars == <<values, vi, bpc, self, states, terminals, larvae, prevValue, m>>
enumVars == <<con, epc, path, sending, got>>
codecVars == <<stream, rd>>
sideVars == <<consumer, second, packed>>
vars == <<buildVars, op, recog, enumVars, codecVars, sideVars>>

\* The set S the builder was fed.
Fed == {values[k] : k \in 1..Len(values)}

InitBuilder ==
    /\ vi = 0
    /\ bpc = "building"
    /\ self = <<>>
    /\ states = <<>>
    /\ terminals = <<FALSE>>
    /\ larvae = << <<>> >>
    /\ prevValue = <<>>
    /\ m = <<>>
    /\ op = "idle"
    /\ recog = <<>>
    /\ con = BaseConstraints
    /\ epc = "idle"
    /\ path = <<>>
    /\ sending = <<>>
    /\ got = <<>>
    /\ stream = <<>>
    /\ rd = <<>>
    /\ consumer = "receiving"
    /\ second = [con |-> BaseConstraints, epc |-> "idle", path |-> <<>>,
                 sending |-> <<>>, got |-> <<>>]
    /\ packed = <<>>

Init ==
    /\ values \in ListsUpTo(SeqsOfLen(0, MaxLen), MaxItems)
    /\ InitBuilder

\* One iteration of "for value := range values".
BuildStep ==
    /\ bpc = "building"
    /\ vi < Len(values)
    /\ LET value == values[vi + 1]
       IN  /\ vi' = vi + 1
           /\ IF Compare(prevValue, value) >= 0
              THEN /\ bpc' = "panic: out-of-order"
                   /\ UNCHANGED <<self, states, terminals, larvae, prevValue>>
              ELSE LET prefixLen == commonPrefixLen(prevValue, value)
                       b == makeSuffixStates(
                                [self |-> self, states |-> states, larvae |-> larvae],
                                prevValue, terminals, prefixLen)
                       fresh == [i \in 1..(Len(value) - prefixLen) |-> <<>>]
                       unset == [i \in 1..(Len(value) - prefixLen) |-> FALSE]
                   IN  /\ bpc' = "building"
                       /\ self' = b.self
                       /\ states' = b.states
                       /\ larvae' = SubSeq(b.larvae, 1, prefixLen + 1) \o fresh
                       /\ terminals' =
                              [(SubSeq(terminals, 1, prefixLen + 1) \o unset)
                                  EXCEPT ![Len(value) + 1] = TRUE]
                       /\ prevValue' = value
    /\ UNCHANGED <<values, m, op, recog, enumVars, codecVars, sideVars>>

\* The channel is closed: finish up and return.
BuildFinish ==
    /\ bpc = "building"
    /\ vi = Len(values)
    /\ LET b == makeSuffixStates(
                    [self |-> self, states |-> states, larvae |-> larvae],
                    prevValue, terminals, 0)
           made == makeState(b, b.larvae[1])
       IN  /\ self' = made.self
           /\ states' = made.states
           /\ larvae' = b.larvae
           /\ IF made.id # Len(made.self) - 1
              THEN bpc' = "panic: start id" /\ m' = m
              ELSE bpc' = "returned" /\ m' = made.self
    /\ UNCHANGED <<values, vi, terminals, prevValue, op, recog, enumVars, codecVars, sideVars>>

(***************************************************************************)
(* Recognizes, called on the returned Recognizer                           *)
(***************************************************************************)

Recognize ==
    /\ bpc = "returned"
    /\ op = "idle"
    /\ \E value \in SeqsOfLen(0, MaxLen + 1) :
          recog' = <<[value |-> value, result |-> Recognizes(m, value)]>>
    /\ op' = "recognizes"
    /\ UNCHANGED <<buildVars, enumVars, codecVars, sideVars>>

(***************************************************************************)
(* ConstrainedSequences: the call, the producer goroutine, the consumer    *)
(***************************************************************************)

\* The call: makes the channel, starts the goroutine, returns the channel.
ConstrainedSequences(c) ==
    /\ bpc = "returned"
    /\ op = "idle"
    /\ op' = "enumerate"
    /\ con' = c
    /\ epc' = "start"
    /\ UNCHANGED <<buildVars, recog, path, sending, got, codecVars, sideVars>>

AllSequences == ConstrainedSequences(BaseConstraints)

\* The goroutine up to the first test of the loop condition.
ProducerStart ==
    /\ epc = "start"
    /\ path' = initialPath(m, con)
    /\ epc' = "head"
    /\ UNCHANGED <<buildVars, op, recog, con, sending, got, codecVars, sideVars>>

\* Mutant: the goroutine returns without closing out.
ProducerInspect_NoClose ==
    /\ epc = "head"
    /\ IF Len(path) = 0
       THEN epc' = "exited" /\ sending' = sending
       ELSE IF emits(con, path)
            THEN epc' = "send" /\ sending' = getBytes(path)
            ELSE epc' = "descend" /\ sending' = sending
    /\ UNCHANGED <<buildVars, op, recog, con, path, got, codecVars, sideVars>>

\* Mutant: out has a buffer, the send returns at once.
ProducerInspect_Buffered ==
    /\ epc = "head"
    /\ IF Len(path) = 0
       THEN epc' = "closed" /\ sending' = sending
       ELSE IF emits(con, path)
            THEN epc' = "descend" /\ sending' = getBytes(path)
            ELSE epc' = "descend" /\ sending' = sending
    /\ UNCHANGED <<buildVars, op, recog, con, path, got, codecVars, sideVars>>

\* The loop condition; then the body up to the send, or past it when nothing
\* is sent.  An empty path ends the loop and the deferred close(out) runs.
ProducerInspect ==
    /\ epc = "head"
    /\ IF Len(path) = 0
       THEN epc' = "closed" /\ sending' = sending
       ELSE IF emits(con, path)
            THEN epc' = "send" /\ sending' = getBytes(path)
            ELSE epc' = "descend" /\ sending' = sending
    /\ UNCHANGED <<buildVars, op, recog, con, path, got, codecVars, sideVars>>

\* out is unbuffered: the send completes when the consumer receives.
Receive ==
    /\ epc = "send"
    /\ consumer = "receiving"
    /\ got' = Append(got, sending)
    /\ sending' = <<>>
    /\ epc' = "descend"
    /\ UNCHANGED <<buildVars, op, recog, con, path, codecVars, sideVars>>

\* Mutant: when a node is popped, the transitions the start state has been
\* through are cut out of the Recognizer.
ProducerDescend_InPlace ==
    /\ epc = "descend"
    /\ path' = descend(m, con, path)
    /\ epc' = "head"
    /\ m' = IF Len(path') < Len(path)
            THEN [m EXCEPT ![Len(m)] = SubSeq(@, path[1].c + 1, Len(@))]
            ELSE m
    /\ UNCHANGED <<values, vi, bpc, self, states, terminals, larvae, prevValue,
                   op, recog, con, sending, got, codecVars, sideVars>>

\* The rest of the body and the loop's post statement.
ProducerDescend ==
    /\ epc = "descend"
    /\ path' = descend(m, con, path)
    /\ epc' = "head"
    /\ UNCHANGED <<buildVars, op, recog, con, sending, got, codecVars, sideVars>>

Enumerate == ProducerStart \/ ProducerInspect \/ Receive \/ ProducerDescend

(***************************************************************************)
(* WriteTo into a buffer, ReadFrom out of it.  Between the two the bytes   *)
(* may be cut short or have one byte overwritten.                          *)
(***************************************************************************)

Write ==
    /\ bpc = "returned"
    /\ op = "idle"
    /\ stream' = WriteTo(m)
    /\ op' = "written"
    /\ UNCHANGED <<buildVars, recog, enumVars, rd, sideVars>>

Truncate ==
    /\ op = "written"
    /\ rd = <<>>
    /\ \E k \in 0..(Len(stream) - 1) : stream' = SubSeq(stream, 1, k)
    /\ op' = "damaged"
    /\ UNCHANGED <<buildVars, recog, enumVars, rd, sideVars>>

Overwrite ==
    /\ op = "written"
    /\ rd = <<>>
    /\ \E k \in 1..Len(stream), v \in {0, 255} :
          /\ stream[k] # v
          /\ stream' = [stream EXCEPT ![k] = v]
    /\ op' = "damaged"
    /\ UNCHANGED <<buildVars, recog, enumVars, rd, sideVars>>

Read ==
    /\ op \in {"written", "damaged"}
    /\ rd = <<>>
    /\ rd' = <<ReadFrom(stream)>>
    /\ UNCHANGED <<buildVars, op, recog, enumVars, stream, sideVars>>

Codec == Write \/ Truncate \/ Overwrite \/ Read

Next == BuildStep \/ BuildFinish \/ Recognize \/ AllSequences \/ Enumerate \/ Codec

Spec == Init /\ [][Next]_vars

(***************************************************************************)
(* Enumeration under constraints: the inputs are strictly ascending lists  *)
(* of non-empty sequences, the Constraints are drawn from the families     *)
(* below.                                                                  *)
(***************************************************************************)

\* The sizes the predicates can be asked about.
Sizes == 1..(MaxLen + 1)

\* IsLargeEnough(n) = (n >= min), IsSmallEnough(n) = (n <= max).
Window(min, max) ==
    [BaseConstraints EXCEPT !.large = {n \in Sizes : n < min},
                            !.small = {n \in Sizes : n > max}]

WindowConstraints == {Window(min, max) : min \in 0..(MaxLen + 1), max \in 0..(MaxLen + 1)}

\* Only IsValueAllowed restricts: any predicate on (position, byte).
ValueConstraints ==
    {[BaseConstraints EXCEPT !.value = v] : v \in SUBSET ((0..(MaxLen - 1)) \X Bytes)}

\* Only the two size predicates restrict: any two predicates on sizes.
SizeConstraints ==
    {[BaseConstraints EXCEPT !.large = l, !.small = k] :
        l \in SUBSET Sizes, k \in SUBSET Sizes}

\* Only IsSequenceAllowed restricts: any predicate on the sequences of S.
SequenceConstraints(S) == {[BaseConstraints EXCEPT !.seq = q] : q \in SUBSET S}

\* All four predicates restrict: a window, one byte required at one position
\* (as the A1 constraints of the tests), one sequence rejected.
MixedConstraints(S) ==
    {[w EXCEPT !.value = {pv \in {pos} \X Bytes : pv[2] # val}, !.seq = q] :
        w \in {Window(1, MaxLen), Window(2, MaxLen), Window(1, MaxLen - 1)},
        pos \in 0..(MaxLen - 1), val \in Bytes,
        q \in {{}} \cup {{x} : x \in S}}

\* a comes strictly before b in lexicographic byte order.
StrictlyLess(a, b) ==
    \E k \in 1..Len(b) :
        /\ \A j \in 1..(k - 1) : j <= Len(a) /\ a[j] = b[j]
        /\ (k > Len(a) \/ (k - 1 < Len(a) /\ a[k] < b[k]))

Ascending(l) == \A k \in 1..Len(l) : StrictlyLess(IF k = 1 THEN <<>> ELSE l[k - 1], l[k])

InitCon ==
    /\ values \in {l \in ListsUpTo(SeqsOfLen(1, MaxLen), MaxItems) : Ascending(l)}
    /\ InitBuilder

Constrained ==
    /\ bpc = "returned"
    /\ op = "idle"
    /\ \E c \in WindowConstraints \cup ValueConstraints \cup SizeConstraints
                    \cup SequenceConstraints(Fed) \cup MixedConstraints(Fed) :
           ConstrainedSequences(c)

NextCon == BuildStep \/ BuildFinish \/ Constrained \/ Enumerate

SpecCon == InitCon /\ [][NextCon]_vars

(***************************************************************************)
(* The codec on a state with a transition for every byte value: the input  *)
(* is every one-byte sequence, or all of them but the last.                *)
(***************************************************************************)

\* The number of values of a byte.
ByteValues == 256

InitFanout ==
    /\ values \in {[k \in 1..n |-> <<k - 1>>] : n \in {ByteValues - 1, ByteValues}}
    /\ InitBuilder

NextFanout == BuildStep \/ BuildFinish \/ Write \/ Read

SpecFanout == InitFanout /\ [][NextFanout]_vars

(***************************************************************************)
(* The enumeration with a consumer that may stop receiving before the      *)
(* channel is closed.  The goroutine takes a step whenever it can, and a   *)
(* consumer that has not stopped receives whenever a value is offered.     *)
(***************************************************************************)

\* The consumer returns without draining out.
Abandon ==
    /\ op = "enumerate"
    /\ consumer = "receiving"
    /\ epc # "closed"
    /\ consumer' = "stopped"
    /\ UNCHANGED <<buildVars, op, recog, enumVars, codecVars, second, packed>>

\* Constraints of each kind: four windows, one byte rejected at the first
\* position, one sequence rejected.
HandoffConstraints(S) ==
    {Window(min, max) : min \in {0, 2}, max \in {1, MaxLen + 1}}
        \cup {[BaseConstraints EXCEPT !.value = {<<0, b>>}] : b \in Bytes}
        \cup {[BaseConstraints EXCEPT !.seq = {x}] : x \in S}

Handoff ==
    /\ bpc = "returned"
    /\ op = "idle"
    /\ \E c \in HandoffConstraints(Fed) : ConstrainedSequences(c)

NextHandoff == BuildStep \/ BuildFinish \/ Handoff \/ Enumerate \/ Abandon

SpecHandoff == InitCon /\ [][NextHandoff]_vars /\ WF_vars(Enumerate)

(***************************************************************************)
(* A second call of ConstrainedSequences on the same Recognizer, with its  *)
(* own goroutine, channel and consumer; its locals are the fields of       *)
(* second.                                                                 *)
(***************************************************************************)

SecondCall(c) ==
    /\ bpc = "returned"
    /\ second.epc = "idle"
    /\ second' = [second EXCEPT !.con = c, !.epc = "start"]
    /\ UNCHANGED <<buildVars, op, recog, enumVars, codecVars, consumer, packed>>

\* Mutant: the path is kept with the Recognizer, a later call goes on from
\* where the earlier one is.
SecondStart_Resume ==
    /\ second.epc = "start"
    /\ second' = [second EXCEPT !.path = IF epc \in {"idle", "start"}
                                         THEN initialPath(m, second.con)
                                         ELSE path,
                                !.epc = "head"]
    /\ UNCHANGED <<buildVars, op, recog, enumVars, codecVars, consumer, packed>>

SecondStart ==
    /\ second.epc = "start"
    /\ second' = [second EXCEPT !.path = initialPath(m, second.con), !.epc = "head"]
    /\ UNCHANGED <<buildVars, op, recog, enumVars, codecVars, consumer, packed>>

SecondInspect ==
    /\ second.epc = "head"
    /\ second' = IF Len(second.path) = 0
                 THEN [second EXCEPT !.epc = "closed"]
                 ELSE IF emits(second.con, second.path)
                      THEN [second EXCEPT !.epc = "send",
                                          !.sending = getBytes(second.path)]
                      ELSE [second EXCEPT !.epc = "descend"]
    /\ UNCHANGED <<buildVars, op, recog, enumVars, codecVars, consumer, packed>>

SecondReceive ==
    /\ second.epc = "send"
    /\ second' = [second EXCEPT !.got = Append(@, second.sending),
                                !.sending = <<>>,
                                !.epc = "descend"]
    /\ UNCHANGED <<buildVars, op, recog, enumVars, codecVars, consumer, packed>>

SecondDescend ==
    /\ second.epc = "descend"
    /\ second' = [second EXCEPT !.path = descend(m, second.con, second.path),
                                !.epc = "head"]
    /\ UNCHANGED <<buildVars, op, recog, enumVars, codecVars, consumer, packed>>

SecondEnumerate == SecondStart \/ SecondInspect \/ SecondReceive \/ SecondDescend

(***************************************************************************)
(* Readers of one Recognizer at the same time: two enumerations and a      *)
(* membership test, their steps interleaved in any order.                  *)
(***************************************************************************)

\* No restriction; a window with a byte rejected at the first position.
SharedConstraints ==
    {BaseConstraints, [Window(2, MaxLen + 1) EXCEPT !.value = {<<0, 65>>}]}

Shared ==
    /\ bpc = "returned"
    /\ op = "idle"
    /\ \E c \in SharedConstraints : ConstrainedSequences(c)

\* The second enumeration runs under the other Constraints.
SecondShared ==
    /\ op = "enumerate"
    /\ \E c \in SharedConstraints \ {con} : SecondCall(c)

\* Recognizes(value), called while the enumerations run.
RecognizeShared ==
    /\ bpc = "returned"
    /\ op = "enumerate"
    /\ recog = <<>>
    /\ \E value \in {values[k] : k \in (1..Len(values)) \cap {1}} \cup {<<65>>} :
           recog' = <<[value |-> value, result |-> Recognizes(m, value)]>>
    /\ UNCHANGED <<buildVars, op, enumVars, codecVars, sideVars>>

NextShared ==
    \/ BuildStep \/ BuildFinish
    \/ Shared \/ Enumerate
    \/ SecondShared \/ SecondEnumerate
    \/ RecognizeShared

SpecShared == InitCon /\ [][NextShared]_vars

(***************************************************************************)
(* ConstrainedSequences called again with the same Constraints, after the  *)
(* first call's channel was closed or its consumer stopped receiving.      *)
(***************************************************************************)

Again ==
    /\ op = "enumerate"
    /\ epc = "closed" \/ (consumer = "stopped" /\ epc = "send")
    /\ SecondCall(con)

NextRestart ==
    \/ BuildStep \/ BuildFinish
    \/ Handoff \/ Enumerate \/ Abandon
    \/ Again \/ SecondEnumerate

SpecRestart == InitCon /\ [][NextRestart]_vars

(***************************************************************************)
(* NewTransition on its own: trigger bytes and state ids at the ends of    *)
(* their ranges and at both sides of the bit positions the packing cuts.   *)
(***************************************************************************)

\* The largest state id that fits the 23 bits.
MaxStateId == 8388607

TriggerValues == {0, 1, 127, 128, ByteValues - 2, ByteValues - 1}

StateIds == {0, 1, 65535, 65536, MaxStateId - 1, MaxStateId}

InitPack ==
    /\ values = <<>>
    /\ InitBuilder

Pack ==
    /\ \E trigger \in TriggerValues, toStateId \in StateIds, isTerminal \in BOOLEAN :
           packed' = <<[trigger |-> trigger, toStateId |-> toStateId,
                        isTerminal |-> isTerminal,
                        t |-> NewTransition(trigger, toStateId, isTerminal)]>>
                         \o SubSeq(packed, 1, IF Len(packed) = 0 THEN 0 ELSE 1)
    /\ UNCHANGED <<buildVars, op, recog, enumVars, codecVars, consumer, second>>

NextPack == Pack

SpecPack == InitPack /\ [][NextPack]_vars

(***************************************************************************)
(* Properties                                                              *)
(***************************************************************************)

\* The item before the k-th (the builder starts from the empty prevValue).
Before(k) == IF k = 1 THEN <<>> ELSE values[k - 1]

\* The first item that is not strictly greater than the one before it; 0 when
\* the input is strictly ascending.
FirstBad ==
    LET bad == {k \in 1..Len(values) : ~StrictlyLess(Before(k), values[k])}
    IN  IF bad = {} THEN 0 ELSE CHOOSE k \in bad : \A j \in bad : k <= j

IsPrefix(a, b) == Len(a) <= Len(b) /\ a = SubSeq(b, 1, Len(a))

\* C1: on a Recognizer built from S, Recognizes(x) is true exactly when x is
\* in S, for every byte sequence x.
C1_MembershipExact ==
    \A i \in 1..Len(recog) : recog[i].result <=> (recog[i].value \in Fed)

\* C2: the values received from AllSequences() until the channel closes are
\* the elements of S, each once, in the order of the input.
C2_RoundTrip ==
    (op = "enumerate" /\ con = BaseConstraints)
        => /\ IsPrefix(got, values)
           /\ epc = "closed" => got = values

C2_Witness ==
    /\ op = "enumerate" /\ con = BaseConstraints /\ epc = "closed"
    /\ Len(got) = 3
    /\ \E i, j \in 1..3 : IsPrefix(got[i], got[j]) /\ i # j

\* What the four predicates of c allow of S, in S's order.
Allowed(c) ==
    SelectSeq(values,
              LAMBDA x : /\ IsLargeEnough(c, Len(x))
                         /\ IsSmallEnough(c, Len(x))
                         /\ \A i \in 1..Len(x) : IsValueAllowed(c, i - 1, x[i])
                         /\ IsSequenceAllowed(c, x))

Range(l) == {l[k] : k \in 1..Len(l)}

\* C3: under any pure Constraints, the set of values emitted is the set of
\* accepted sequences that all four predicates allow.
C3_ConstrainedExact ==
    (op = "enumerate" /\ epc = "closed") => Range(got) = Range(Allowed(con))

\* C4: under a length window [min, max], the values emitted are the
\* sequences of S of length min..max, in S's order.
C4_LengthWindow ==
    (op = "enumerate" /\ epc = "closed" /\ con \in WindowConstraints)
        => got = Allowed(con)

\* C5: under a per-position value filter alone, the values emitted are the
\* members of S whose byte is allowed at every position, in S's order.
C5_ValueFilter ==
    (op = "enumerate" /\ con \in ValueConstraints)
        => /\ IsPrefix(got, Allowed(con))
           /\ epc = "closed" => got = Allowed(con)

\* A member shorter than a restricted position is emitted, a longer one with
\* a rejected byte there is not.
C5_Witness ==
    /\ op = "enumerate" /\ epc = "closed"
    /\ con \in ValueConstraints
    /\ \E x \in Range(got), y \in Fed \ Range(got), pv \in con.value :
          /\ Len(x) <= pv[1]
          /\ Len(y) > pv[1] /\ y[pv[1] + 1] = pv[2]

\* C6: the values sent on the channel are strictly ascending in
\* lexicographic byte order.
C6_EmissionOrder ==
    /\ \A k \in 2..Len(got) : StrictlyLess(got[k - 1], got[k])
    /\ epc = "send" => (got = <<>> \/ StrictlyLess(got[Len(got)], sending))

C6_Witness ==
    /\ op = "enumerate" /\ epc = "send"
    /\ Len(got) >= 1
    /\ con.small # {} /\ con.value # {}
    /\ Range(Allowed(con)) # Fed

\* C7: an item that is not strictly greater than the item before it makes
\* FromChannel panic at that item, and no Recognizer is returned.
C7_OrderingPrecondition ==
    /\ (FirstBad # 0 /\ vi >= FirstBad)
           => /\ bpc = "panic: out-of-order"
              /\ vi = FirstBad
              /\ m = <<>>
              /\ op = "idle"
    /\ bpc = "returned" => FirstBad = 0

C7_Witness ==
    /\ bpc = "panic: out-of-order"
    /\ vi = 3
    /\ Len(self) > 0


\* C8: ReadFrom of the bytes WriteTo produced returns no error and a
\* Recognizer with the same states at the same indices.
C8_SerializeRoundTrip ==
    (op = "written" /\ rd # <<>>)
        => /\ ~rd[1].panicked
           /\ rd[1].err = "nil"
           /\ rd[1].len = Len(m)
           /\ rd[1].self = m

\* C9: when the first 6 bytes are not the format tag, ReadFrom returns a
\* non-nil error.
C9_MagicCheck ==
    (rd # <<>> /\ Len(stream) >= 6 /\ SubSeq(stream, 1, 6) # serializationPrefix)
        => rd[1].err # "nil"

\* C10: ReadFrom never panics, and on a stream that is cut short or whose
\* state_count is negative it returns a non-nil error.
C10_MalformedContained ==
    rd # <<>>
        => /\ ~rd[1].panicked
           /\ (Len(stream) < Len(WriteTo(m)) \/ (Len(stream) >= 10 /\ stream[7] >= 128))
                  => rd[1].err # "nil"

(***************************************************************************)
(* The builder's invariants                                                *)
(***************************************************************************)

\* The prefixes of the values read so far, the empty one included.
Prefixes == UNION {{SubSeq(v, 1, k) : k \in 0..Len(v)} : v \in Fed} \cup {<<>>}

\* The non-empty continuations of p that lead to a value read so far.
Quotient(p) ==
    {SubSeq(v, Len(p) + 1, Len(v)) :
        v \in {u \in Fed : Len(u) > Len(p) /\ SubSeq(u, 1, Len(p)) = p}}

RECURSIVE LangOf(_, _)
\* The non-empty sequences accepted from state s of r.
LangOf(r, s) ==
    UNION {(IF IsTerminal(s[k]) THEN {<<Trigger(s[k])>>} ELSE {})
               \cup {<<Trigger(s[k])>> \o w : w \in LangOf(r, r[ToState(s[k]) + 1])}
           : k \in 1..Len(s)}

\* C15: FromChannel never panics with "Unexpected start ID": the root is
\* appended as the last entry of the list, it was not in the list before, and
\* Start() returns it; this holds for the empty input too.
C15_StartIsLast ==
    /\ bpc # "panic: start id"
    /\ bpc = "returned"
           => /\ Len(m) >= 1
              /\ Start(m) = larvae[1]
              /\ \A i \in 1..(Len(m) - 1) : m[i] # larvae[1]
              /\ LangOf(m, Start(m)) = Fed

C15_Witness == bpc = "returned" /\ Len(values) = 0 /\ Len(m) = 1

\* C16: after every step of FromChannel and in the Recognizer it returns,
\* every transition of the state at index i leads to an index strictly less
\* than i.
C16_Acyclic ==
    /\ \A i \in 1..Len(self) : \A k \in 1..Len(self[i]) : ToState(self[i][k]) < i - 1
    /\ \A i \in 1..Len(m) : \A k \in 1..Len(m[i]) : ToState(m[i][k]) < i - 1

C16_Witness ==
    /\ bpc = "returned" /\ Len(m) = 3
    /\ \E k \in 1..Len(m[3]) : ToState(m[3][k]) = 1
    /\ \E k \in 1..Len(m[2]) : ToState(m[2][k]) = 0

\* Transitions strictly ascending by packed value, no trigger twice.
WellFormed(s) ==
    /\ \A k \in 1..(Len(s) - 1) : s[k][1] < s[k + 1][1] \/ (s[k][1] = s[k + 1][1] /\ s[k][2] < s[k + 1][2])
    /\ \A j, k \in 1..Len(s) : j # k => Trigger(s[j]) # Trigger(s[k])

\* C17: in every larva during construction, in every frozen state and in
\* every state of the returned Recognizer, the transitions are strictly
\* ascending by packed value and no two of them have the same trigger.
C17_WellFormed ==
    /\ \A i \in 1..Len(larvae) : WellFormed(larvae[i])
    /\ \A i \in 1..Len(self) : WellFormed(self[i])
    /\ \A i \in 1..Len(m) : WellFormed(m[i])

C17_Witness ==
    /\ bpc = "returned"
    /\ Len(larvae[1]) = 2
    /\ \E i \in 1..(Len(m) - 1) : Len(m[i]) = 2

\* C18: no two indices of the list hold the same transitions or accept the
\* same set of suffixes, at every step of the construction; the returned
\* Recognizer has as many states as the input set has distinct suffix
\* languages.
C18_Minimal ==
    /\ \A i, j \in 1..Len(self) : i # j => self[i] # self[j]
    /\ Cardinality({LangOf(self, self[i]) : i \in 1..Len(self)}) = Len(self)
    /\ bpc = "returned"
           => /\ m = self
              /\ Len(m) = Cardinality({Quotient(p) : p \in Prefixes})

C18_Witness ==
    /\ bpc = "returned"
    /\ Len(m) = 3
    /\ Cardinality(Prefixes) = 5

(***************************************************************************)
(* The goroutine and its consumer                                          *)
(***************************************************************************)

\* C11: once the consumer has stopped receiving, the goroutine eventually
\* terminates (its deferred close(out) runs).
C11_Cancellation == (consumer = "stopped") ~> (epc = "closed")

\* C12: while the consumer keeps receiving, every enumeration ends with the
\* channel closed; the channel is closed only when no value is waiting to be
\* received, and after the close nothing is sent or received.
C12_Termination ==
    /\ (op = "enumerate") ~> (epc = "closed" \/ consumer = "stopped")
    /\ [](epc = "closed" => sending = <<>> /\ path = <<>>)
    /\ [][epc = "closed" => (epc' = "closed" /\ sending' = sending /\ got' = got)]_vars

C12_Witness == epc = "closed" /\ consumer = "receiving" /\ Len(got) >= 2

\* C20: a value that has been assembled stays pending until the consumer
\* receives it; while it is pending the goroutine does not move, and the next
\* value is assembled only after the pending one was received.
C20_SingleSlot ==
    [][sending # <<>>
          => /\ epc = "send"
             /\ path' = path
             /\ \/ sending' = sending /\ got' = got /\ epc' = epc
                \/ sending' = <<>> /\ got' = Append(got, sending)]_vars

C20_Witness == epc = "send" /\ Len(got) >= 1 /\ sending # got[Len(got)]

\* The goroutine is about to call con.IsSequenceAllowed(getBytes(path)).
CallsSequenceAllowed ==
    /\ epc = "head"
    /\ path # <<>>
    /\ IsTerminal(CurrentTransition(path[Len(path)]))
    /\ IsLargeEnough(con, Len(path))

\* C19: IsSequenceAllowed is called only on a candidate whose length passes
\* IsLargeEnough and IsSmallEnough and whose every byte passes IsValueAllowed
\* at its position.
C19_CallProtocol ==
    CallsSequenceAllowed
        => /\ IsLargeEnough(con, Len(path))
           /\ IsSmallEnough(con, Len(path))
           /\ \A i \in 1..Len(path) : IsValueAllowed(con, i - 1, getBytes(path)[i])

(***************************************************************************)
(* Readers of a built Recognizer                                           *)
(***************************************************************************)

RECURSIVE drainLoop(_, _, _, _)
\* What the goroutine sends from pth on when nothing else runs.
drainLoop(r, c, pth, sent) ==
    IF Len(pth) = 0 THEN sent
    ELSE drainLoop(r, c, descend(r, c, pth),
                   IF emits(c, pth) THEN Append(sent, getBytes(pth)) ELSE sent)

\* The values one call of ConstrainedSequences(c) on r delivers when it is
\* the only reader of r and is drained.
Drained(r, c) == drainLoop(r, c, initialPath(r, c), <<>>)

\* C13: the readers leave the Recognizer as FromChannel returned it, and in
\* every interleaving of two enumerations and a membership test each
\* enumeration delivers what it delivers alone and the test returns what it
\* returns alone.
C13_ReadOnly ==
    bpc = "returned"
        => /\ m = self
           /\ epc = "closed" => got = Drained(self, con)
           /\ second.epc = "closed" => second.got = Drained(self, second.con)
           /\ \A k \in 1..Len(recog) : recog[k].result = Recognizes(self, recog[k].value)

C13_Witness ==
    /\ epc = "send" /\ second.epc = "send"
    /\ Len(got) = 1 /\ Len(second.got) = 1
    /\ con # second.con
    /\ sending # second.sending
    /\ recog # <<>> /\ recog[1].result

\* C14: a call of ConstrainedSequences made after an earlier call with the
\* same Constraints was drained or abandoned starts from the start state:
\* drained, it delivers the sequence the first call delivers when drained.
C14_Restartable ==
    second.epc = "closed"
        => /\ second.got = Drained(m, con)
           /\ IsPrefix(got, second.got)
           /\ epc = "closed" => got = second.got

C14_Witness ==
    /\ epc = "send" /\ consumer = "stopped" /\ Len(got) = 1
    /\ second.epc = "closed" /\ Len(second.got) >= 3

(***************************************************************************)
(* The path of the enumeration                                             *)
(***************************************************************************)

\* C22: at the head of every iteration with a non-empty path, the first node
\* holds the start state, each further node holds the state the node below
\* leads to, every cursor is in range and its byte passes IsValueAllowed at
\* the node's depth, and the path is no longer than the longest sequence the
\* Recognizer was built from.
C22_PathInvariant ==
    (epc = "head" /\ path # <<>>)
        => /\ path[1].s = Start(m)
           /\ \A k \in 1..(Len(path) - 1) :
                  path[k + 1].s = m[ToState(CurrentTransition(path[k])) + 1]
           /\ \A k \in 1..Len(path) :
                  /\ path[k].c >= 0
                  /\ path[k].c < Len(path[k].s)
                  /\ IsValueAllowed(con, k - 1, Trigger(CurrentTransition(path[k])))
           /\ \E v \in Fed : Len(path) <= Len(v)

C22_Witness ==
    /\ epc = "head"
    /\ Len(path) = MaxLen
    /\ path[1].c >= 1
    /\ path[Len(path)].c >= 1
    /\ con.value # {}
    /\ got # <<>>

(***************************************************************************)
(* The packed transition                                                   *)
(***************************************************************************)

\* C21: a transition made by NewTransition from a trigger byte, a terminal
\* flag and a state id of at most 23 bits is a 32-bit value that gives back
\* the three of them; and of two transitions the one with the smaller trigger
\* is the smaller unsigned 32-bit value.
C21_Packing ==
    /\ \A k \in 1..Len(packed) :
           /\ packed[k].t[1] \in 0..65535 /\ packed[k].t[2] \in 0..65535
           /\ Trigger(packed[k].t) = packed[k].trigger
           /\ IsTerminal(packed[k].t) = packed[k].isTerminal
           /\ ToState(packed[k].t) = packed[k].toStateId
    /\ \A j, k \in 1..Len(packed) :
           packed[j].trigger < packed[k].trigger
               => \/ packed[j].t[1] < packed[k].t[1]
                  \/ packed[j].t[1] = packed[k].t[1] /\ packed[j].t[2] < packed[k].t[2]

C21_Witness ==
    /\ Len(packed) = 2
    /\ packed[1].trigger = 127 /\ packed[1].isTerminal /\ packed[1].toStateId = MaxStateId
    /\ packed[2].trigger = 128 /\ ~packed[2].isTerminal /\ packed[2].toStateId = 0

====
